---- MODULE Spec2Model ----
(***************************************************************************)
(* A model of xtuml/model.py: the metamodel registry (MetaModel), its      *)
(* instances (BaseObject), the per-class association index __q__ and       *)
(* association result cache __c__, the identity source (IdGenerator) and   *)
(* the navigation chain (NavChain).                                        *)
(*                                                                         *)
(* Representation.                                                         *)
(*  - An attribute name is a pair <<base, variant>>: base is the name in   *)
(*    lower case, variant its letter case (0 lower, 1 Capitalised,         *)
(*    2 UPPER).  str.lower() maps <<b, v>> to <<b, 0>>.                    *)
(*  - A value is a record [ty, v].  Numbers (boolean, integer, real)       *)
(*    carry their numeric value in v; a string carries a code: 0 is the    *)
(*    empty string, n + 1 the decimal text of the integer n, -1 "True",    *)
(*    -2 "False" and -3 - n the text "n.0" of the real n; a unique_id      *)
(*    carries the 128-bit integer of the identity value.                   *)
(*  - A dict is a sequence of [k, val] entries in insertion order.         *)
(*  - A QuerySet that is only ever added to is the duplicate-free sequence *)
(*    of its elements in first-insertion order (OrderedSet.add, __iter__). *)
(*  - A class object (the result of type(kind, ...)) is an index into cls; *)
(*    an instance is an index into objs.                                   *)
(*  - An OrderedSet that is also discarded from is its membership map and  *)
(*    its doubly linked nodes, addressed in the order of their creation.   *)
(*  - An IdGenerator object is id_generator (the default of the parameter  *)
(*    of MetaModel.__init__) or an element of generators; a registry is    *)
(*    the address of the IdGenerator it holds.                             *)
(***************************************************************************)
EXTENDS Integers, Sequences, FiniteSets, TLC

\* Bounds of the model.  The relational specification creates at most
\* MaxObjs objects (class objects and instances together), at most MaxCls
\* of them class objects; the factory specification creates at most MaxNew
\* instances; MaxIds bounds the identity values read.
MaxObjs == 5
MaxCls == 3
MaxNew == 2
MaxIds == 3
\* The container specification adds elements 1 .. MaxKey and allocates at
\* most MaxNodes nodes.
MaxKey == 3
MaxNodes == 4
\* The construction specification constructs at most MaxRegs registries.
MaxRegs == 4

VARIABLES
    classes,                    \* MetaModel.classes: kind -> class object
    param_names,                \* MetaModel.param_names: kind -> names
    param_types,                \* MetaModel.param_types: kind -> type names
    instances,                  \* MetaModel.instances: kind -> list of instances
    id_generator,               \* MetaModel.id_generator: [current]
    ignore_undefined_classes,   \* MetaModel.ignore_undefined_classes
    cls,                        \* class objects: [name, q, c]
    objs,                       \* instance objects: [cls, dict]
    ret,                        \* the last call and what it returned or raised
    map,                        \* OrderedSet.map: key -> node
    heap,                       \* the nodes [key, prev, next] of an OrderedSet
    registries,                 \* the registries constructed: the IdGenerator of each
    generators                  \* the IdGenerator objects passed to MetaModel(...)

\* The state of one OrderedSet, used on its own.
container == <<map, heap>>

\* The registries constructed and the identity sources made for them.
construction == <<registries, generators>>

vars == <<classes, param_names, param_types, instances, id_generator,
          ignore_undefined_classes, cls, objs, ret, container, construction>>

----------------------------------------------------------------------------
\* Maps (Python dicts whose order is never observed).

EmptyMap == [x \in {} |-> x]

MapPut(f, k, v) == [x \in (DOMAIN f) \cup {k} |-> IF x = k THEN v ELSE f[x]]

----------------------------------------------------------------------------
\* Attribute names and values.

lower(name) == <<name[1], 0>>

PyBool(b) == [ty |-> "boolean", v |-> IF b THEN 1 ELSE 0]
PyInt(n) == [ty |-> "integer", v |-> n]
PyFloat(n) == [ty |-> "real", v |-> n]
PyStr(code) == [ty |-> "string", v |-> code]
PyUuid(n) == [ty |-> "unique_id", v |-> n]

IsNumber(x) == x.ty \in {"boolean", "integer", "real"}

\* Python's ==: False == 0 == 0.0, and a number never equals a string or a UUID.
PyEq(x, y) == IF IsNumber(x) /\ IsNumber(y) THEN x.v = y.v ELSE x = y

\* Equal values hash alike, so they are one member of a frozenset.
HashForm(x) == IF IsNumber(x) THEN [ty |-> "number", v |-> x.v] ELSE x

----------------------------------------------------------------------------
\* Ordered dicts: instance __dict__ and keyword arguments.

DictKeys(d) == {d[i].k : i \in DOMAIN d}

DictIndex(d, k) == CHOOSE i \in DOMAIN d : d[i].k = k

DictGet(d, k) == d[DictIndex(d, k)].val

DictSet(d, k, v) ==
    IF k \in DictKeys(d)
    THEN [d EXCEPT ![DictIndex(d, k)].val = v]
    ELSE Append(d, [k |-> k, val |-> v])

RECURSIVE DictUpdate(_, _)
DictUpdate(d, other) ==
    IF other = <<>> THEN d
    ELSE DictUpdate(DictSet(d, Head(other).k, Head(other).val), Tail(other))

\* The first key, in iteration order, that equals name when lower-cased;
\* 0 when there is none.
FirstMatch(d, name) ==
    LET hits == {i \in DOMAIN d : lower(d[i].k) = lower(name)}
    IN  IF hits = {} THEN 0 ELSE CHOOSE i \in hits : \A j \in hits : i <= j

----------------------------------------------------------------------------
\* IdGenerator.

\* readfunc: a producer that never repeats a value (uuid.uuid4 by default),
\* modelled as the successor of the value read last.
readfunc(g) == g.current + 1

peek(g) == g.current

\* A next() that reads no new value.
NextStays(g) == [val |-> g.current, gen |-> g]

\* next(): the current value, and the generator after the call.
next(g) == [val |-> g.current, gen |-> [g EXCEPT !.current = readfunc(g)]]

----------------------------------------------------------------------------
\* MetaModel.default_value and the coercion of positional arguments.

KnownDefaults == {"boolean", "integer", "real", "string", "unique_id"}

\* default_value(ty_name): [ok, val, gen]; ok = FALSE is ModelException.
default_value(ty_name, g) ==
    CASE ty_name = "boolean" -> [ok |-> TRUE, val |-> PyBool(FALSE), gen |-> g]
      [] ty_name = "integer" -> [ok |-> TRUE, val |-> PyInt(0), gen |-> g]
      [] ty_name = "real" -> [ok |-> TRUE, val |-> PyFloat(0), gen |-> g]
      [] ty_name = "string" -> [ok |-> TRUE, val |-> PyStr(0), gen |-> g]
      [] ty_name = "unique_id" ->
            [ok |-> TRUE, val |-> PyUuid(next(g).val), gen |-> next(g).gen]
      [] OTHER -> [ok |-> FALSE, val |-> PyInt(0), gen |-> g]

\* isinstance(value, named_type(ty_name)); bool is a subclass of int.
IsInstance(value, ty_name) ==
    CASE ty_name = "boolean" -> value.ty = "boolean"
      [] ty_name = "integer" -> value.ty \in {"integer", "boolean"}
      [] ty_name = "real" -> value.ty = "real"
      [] ty_name = "string" -> value.ty = "string"
      [] ty_name = "unique_id" -> value.ty = "unique_id"
      [] OTHER -> FALSE

\* named_type(ty_name)(value) for a number or a string: [ok, val]; ok = FALSE
\* is the ValueError, TypeError or AttributeError of the constructor.
\* (Arguments are numbers and strings; inst_ref and inst_ref_set attributes
\* never get here, default_value has raised before.)
Construct(ty_name, value) ==
    CASE ty_name = "boolean" ->
            [ok |-> TRUE, val |-> PyBool(value.v # 0)]
      [] ty_name = "integer" ->
            IF value.ty = "string"
            THEN [ok |-> value.v > 0, val |-> PyInt(value.v - 1)]
            ELSE [ok |-> TRUE, val |-> PyInt(value.v)]
      [] ty_name = "real" ->
            IF value.ty = "string"
            THEN IF value.v > 0 THEN [ok |-> TRUE, val |-> PyFloat(value.v - 1)]
                 ELSE [ok |-> value.v <= -3, val |-> PyFloat(-3 - value.v)]
            ELSE [ok |-> TRUE, val |-> PyFloat(value.v)]
      [] ty_name = "string" ->
            CASE value.ty = "boolean" ->
                    [ok |-> TRUE, val |-> PyStr(IF value.v = 1 THEN -1 ELSE -2)]
              [] value.ty = "integer" -> [ok |-> TRUE, val |-> PyStr(value.v + 1)]
              [] OTHER -> [ok |-> TRUE, val |-> PyStr(-3 - value.v)]
      [] OTHER -> [ok |-> FALSE, val |-> value]

Coerce(ty_name, value) ==
    IF IsInstance(value, ty_name) THEN [ok |-> TRUE, val |-> value]
    ELSE Construct(ty_name, value)

----------------------------------------------------------------------------
\* BaseObject.__getattr__ and __setattr__ on an instance __dict__.

\* getattr(inst, name): the exact key if the dict has it, else __getattr__:
\* the first key equal to name in lower case; ok = FALSE is AttributeError.
GetAttr(d, name) ==
    LET At(i) == IF i # 0 THEN [ok |-> TRUE, val |-> d[i].val]
                 ELSE [ok |-> FALSE, val |-> PyInt(0)]
    IN  IF name \in DictKeys(d) THEN [ok |-> TRUE, val |-> DictGet(d, name)]
        ELSE At(FirstMatch(d, name))

\* A setter that stores an unmatched name as a new attribute.
SetAttrDictAdds(d, name, value) ==
    LET At(i) == IF i # 0 THEN [hit |-> TRUE, dict |-> [d EXCEPT ![i].val = value]]
                 ELSE [hit |-> FALSE,
                       dict |-> Append(d, [k |-> lower(name), val |-> value])]
    IN  At(FirstMatch(d, name))

\* __setattr__: [hit, dict]; hit = FALSE is the silent return without a match.
SetAttrDict(d, name, value) ==
    LET At(i) == IF i # 0 THEN [hit |-> TRUE, dict |-> [d EXCEPT ![i].val = value]]
                 ELSE [hit |-> FALSE, dict |-> d]
    IN  At(FirstMatch(d, name))

----------------------------------------------------------------------------
\* AssociationLink.

AssociationLink(kind, cardinality, ids, phrase) ==
    [kind |-> kind, cardinality |-> cardinality, ids |-> ids, phrase |-> phrase]

SingleAssociationLink(kind, conditional, ids, phrase) ==
    AssociationLink(kind, IF conditional THEN "1C" ELSE "1", ids, phrase)

ManyAssociationLink(kind, conditional, ids, phrase) ==
    AssociationLink(kind, IF conditional THEN "MC" ELSE "M", ids, phrase)

is_many(link) == link.cardinality \in {"M", "MC"}

is_conditional(link) == link.cardinality \in {"1C", "MC"}

----------------------------------------------------------------------------
\* OrderedSet in its add-only use: QuerySet(iterable) and result |= other.

RECURSIVE Union(_, _)
Union(a, b) ==
    IF b = <<>> THEN a
    ELSE Union(IF \E i \in DOMAIN a : a[i] = Head(b) THEN a ELSE Append(a, Head(b)),
               Tail(b))

QuerySet(iterable) == Union(<<>>, iterable)

----------------------------------------------------------------------------
\* OrderedSet as the linked structure it is: map takes a key to its node,
\* a node is [key, prev, next], and the nodes are addressed by the order of
\* their creation.  Node end is the sentinel [None, end, end]; None is 0.

end == 0

None == 0

\* OrderedSet.__init__ without an iterable: [map, heap].
OrderedSet ==
    [map |-> EmptyMap,
     heap |-> [n \in {end} |-> [key |-> None, prev |-> end, next |-> end]]]

\* __len__ and __contains__.
len(m) == Cardinality(DOMAIN m)

contains(m, key) == key \in DOMAIN m

\* The generators of __iter__ (along "next") and __reversed__ (along
\* "prev"), run to their end from node curr.  A link leads from a node to a
\* node created later ("next") or earlier ("prev"), or to end, so the walk
\* ends.
RECURSIVE Walk(_, _, _)
Walk(h, curr, link) ==
    IF curr = end THEN <<>> ELSE <<h[curr].key>> \o Walk(h, h[curr][link], link)

iter(h) == Walk(h, h[end].next, "next")

reversed(h) == Walk(h, h[end].prev, "prev")

\* The heap after curr[2] = end[1] = self.map[key] = [key, curr, end],
\* where node is the address of the new node.
Link(h, node, key) ==
    LET curr == h[end].prev
        made == [n \in DOMAIN h \cup {node} |->
                    IF n = node THEN [key |-> key, prev |-> curr, next |-> end]
                    ELSE h[n]]
        tied == [made EXCEPT ![curr].next = node]
    IN  [tied EXCEPT ![end].prev = node]

\* An add without the membership test.
AddAgain(set, key) ==
    [map |-> MapPut(set.map, key, Cardinality(DOMAIN set.heap)),
     heap |-> Link(set.heap, Cardinality(DOMAIN set.heap), key)]

\* OrderedSet.add(key) on the set [map, heap]: the set after the call.
AddKey(set, key) ==
    IF contains(set.map, key) THEN set
    ELSE [map |-> MapPut(set.map, key, Cardinality(DOMAIN set.heap)),
          heap |-> Link(set.heap, Cardinality(DOMAIN set.heap), key)]

\* self |= iterable (MutableSet.__ior__): add every value in turn.
RECURSIVE Ior(_, _)
Ior(set, iterable) ==
    IF iterable = <<>> THEN set ELSE Ior(AddKey(set, Head(iterable)), Tail(iterable))

\* OrderedSet(iterable).
FromIterable(iterable) == Ior(OrderedSet, iterable)

\* a | b (Set.__or__): the class built from a's elements, then b's.
Or(a, b) == FromIterable(iter(a.heap) \o iter(b.heap))

\* next(it) on a fresh generator over seq: [st, val].
NextOf(seq) ==
    IF seq = <<>> THEN [st |-> "StopIteration", val |-> None]
    ELSE [st |-> "ok", val |-> Head(seq)]

\* QuerySet.first and QuerySet.last: None on a set of length 0.
QuerySetFirst(m, h) == IF len(m) = 0 THEN [st |-> "ok", val |-> None] ELSE NextOf(iter(h))

QuerySetLast(m, h) == IF len(m) = 0 THEN [st |-> "ok", val |-> None] ELSE NextOf(reversed(h))

\* The statements of discard after self.map.pop(key): prev[2] = next_ is
\* done, then next[1] = prev assigns to an item of the builtin function
\* next, which raises TypeError.
Unlink(h, node) ==
    [st |-> "TypeError", heap |-> [h EXCEPT ![h[node].prev].next = h[node].next]]

\* The map without key (self.map.pop(key)).
MapPop(m, key) == [k \in DOMAIN m \ {key} |-> m[k]]

\* OrderedSet.discard(key) on [map, heap]: [st, map, heap].
Discard(m, h, key) ==
    LET Done(u) == [st |-> u.st, map |-> MapPop(m, key), heap |-> u.heap]
    IN  IF contains(m, key) THEN Done(Unlink(h, m[key]))
        ELSE [st |-> "ok", map |-> m, heap |-> h]

\* The key OrderedSet.pop(last) reads before it calls discard.
PopKey(h, last) == IF last THEN h[h[end].prev].key ELSE h[h[end].next].key

----------------------------------------------------------------------------
\* MetaModel._query and MetaModel._select_endpoint.

\* One pass of the inner loop of _query over kwargs.items(): "yes" when no
\* pair differs, "no" at the first pair that differs, "err" when getattr
\* raises before that.
RECURSIVE Matches(_, _)
Matches(d, kwargs) ==
    LET Compare(got) ==
            IF ~got.ok THEN "err"
            ELSE IF ~PyEq(got.val, Head(kwargs).val) THEN "no"
            ELSE Matches(d, Tail(kwargs))
    IN  IF kwargs = <<>> THEN "yes" ELSE Compare(GetAttr(d, Head(kwargs).k))

\* _query(kind, many, **kwargs) over the instance list insts, consumed to
\* the end by QuerySet(...): [ok, val]; ok = FALSE is AttributeError.
RECURSIVE Query(_, _, _)
Query(insts, many, kwargs) ==
    LET Yield(m, rest) ==
            CASE m = "err" -> [ok |-> FALSE, val |-> <<>>]
              [] m = "no" -> rest
              [] OTHER ->
                   IF ~many THEN [ok |-> TRUE, val |-> <<Head(insts)>>]
                   ELSE [ok |-> rest.ok, val |-> <<Head(insts)>> \o rest.val]
    IN  IF insts = <<>> THEN [ok |-> TRUE, val |-> <<>>]
        ELSE Yield(Matches(objs[Head(insts)].dict, kwargs),
                   Query(Tail(insts), many, kwargs))

\* [getattr(inst, name) for name in ids]: [ok, val].
RECURSIVE SourceValues(_, _)
SourceValues(d, ids) ==
    LET Cons(got, rest) ==
            IF got.ok /\ rest.ok
            THEN [ok |-> TRUE, val |-> <<got.val>> \o rest.val]
            ELSE [ok |-> FALSE, val |-> <<>>]
    IN  IF ids = <<>> THEN [ok |-> TRUE, val |-> <<>>]
        ELSE Cons(GetAttr(d, Head(ids)), SourceValues(d, Tail(ids)))

\* dict(zip(keys, values)).
RECURSIVE ZipDict(_, _)
ZipDict(keys, values) ==
    IF keys = <<>> \/ values = <<>> THEN <<>>
    ELSE DictUpdate(<<[k |-> Head(keys), val |-> Head(values)]>>,
                    ZipDict(Tail(keys), Tail(values)))

\* frozenset(list(kwargs.items())).
CacheKey(kwargs) == {<<kwargs[i].k, HashForm(kwargs[i].val)>> : i \in DOMAIN kwargs}

\* What the scan computes on a cache miss.
Scan(target, kwargs) == Query(instances[target.kind], is_many(target), kwargs)

\* _select_endpoint(inst, source, target, {}) with the class objects co:
\* [ok, val, cls]; cls is the class objects after the call.
SelectEndpoint(inst, source, target, co) ==
    LET T == classes[target.kind]
        Cached(cache_key, scan) ==
            IF cache_key \in DOMAIN co[T].c
            THEN [ok |-> TRUE, val |-> co[T].c[cache_key], cls |-> co]
            ELSE IF ~scan.ok THEN [ok |-> FALSE, val |-> <<>>, cls |-> co]
            ELSE [ok |-> TRUE, val |-> scan.val,
                  cls |-> [co EXCEPT ![T].c = MapPut(@, cache_key, scan.val)]]
        Select(kwargs) == Cached(CacheKey(kwargs), Scan(target, kwargs))
        Join(values) ==
            IF ~values.ok THEN [ok |-> FALSE, val |-> <<>>, cls |-> co]
            ELSE Select(ZipDict(target.ids, values.val))
    IN  IF target.kind \notin DOMAIN instances
        THEN [ok |-> TRUE, val |-> <<>>, cls |-> co]
        ELSE Join(SourceValues(objs[inst].dict, source.ids))

----------------------------------------------------------------------------
\* NavChain.

\* 'R%d' % relid for an integer relid; relid is <<"int", n>> or <<"str", n>>
\* (the text "Rn").
RelId(relid) == <<"str", relid[2]>>

\* NavChain.nav over the bound handle h, with the result so far in acc:
\* [st, val, cls]; st is "ok", "KeyError" (no such entry in the child's
\* __q__) or "AttributeError" (raised inside the lookup).
RECURSIVE nav(_, _, _, _)
nav(h, hop, acc, co) ==
    LET key == <<hop.kind, RelId(hop.relid), hop.phrase>>
        Add(r) ==
            IF ~r.ok THEN [st |-> "AttributeError", val |-> <<>>, cls |-> co]
            ELSE nav(Tail(h), hop, Union(acc, r.val), r.cls)
        Child(q) ==
            IF key \notin DOMAIN q
            THEN [st |-> "KeyError", val |-> <<>>, cls |-> co]
            ELSE Add(SelectEndpoint(Head(h), q[key].source, q[key].target, co))
    IN  IF h = <<>> THEN [st |-> "ok", val |-> acc, cls |-> co]
        ELSE Child(co[objs[Head(h)].cls].q)

\* The hops of a chain, left to right.
RECURSIVE Hops(_, _, _)
Hops(h, hops, co) ==
    LET Then(r) == IF r.st # "ok" THEN r ELSE Hops(r.val, Tail(hops), r.cls)
    IN  IF hops = <<>> THEN [st |-> "ok", val |-> h, cls |-> co]
        ELSE Then(nav(h, Head(hops), <<>>, co))

\* A where clause is NoWhere (None) or [name, val], the lambda
\* sel: sel.name == val.  Holds(i, w) is "yes", "no" or "err" (the lambda
\* raises AttributeError); filter(None, ...) keeps every instance, an
\* instance being true.
NoWhere == [none |-> TRUE]

Holds(i, where_clause) ==
    LET Test(got) ==
            IF ~got.ok THEN "err"
            ELSE IF PyEq(got.val, where_clause.val) THEN "yes" ELSE "no"
    IN  IF where_clause = NoWhere THEN "yes"
        ELSE Test(GetAttr(objs[i].dict, where_clause.name))

\* QuerySet(filter(where_clause, handle)): [st, val].
RECURSIVE FilterAll(_, _)
FilterAll(h, where_clause) ==
    LET Keep(m, rest) ==
            CASE m = "err" -> [st |-> "AttributeError", val |-> <<>>]
              [] m = "no" -> rest
              [] OTHER -> [st |-> rest.st,
                           val |-> IF rest.st = "ok" THEN <<Head(h)>> \o rest.val
                                   ELSE <<>>]
    IN  IF h = <<>> THEN [st |-> "ok", val |-> <<>>]
        ELSE Keep(Holds(Head(h), where_clause), FilterAll(Tail(h), where_clause))

\* next(filter(where_clause, handle), None): [st, val]; val is <<>> for None.
RECURSIVE FilterFirst(_, _)
FilterFirst(h, where_clause) ==
    LET Take(m) ==
            CASE m = "err" -> [st |-> "AttributeError", val |-> <<>>]
              [] m = "no" -> FilterFirst(Tail(h), where_clause)
              [] OTHER -> [st |-> "ok", val |-> <<Head(h)>>]
    IN  IF h = <<>> THEN [st |-> "ok", val |-> <<>>]
        ELSE Take(Holds(Head(h), where_clause))

\* NavChain.__call__.
Call(h, many, where_clause) ==
    IF many THEN FilterAll(h, where_clause) ELSE FilterFirst(h, where_clause)

----------------------------------------------------------------------------
\* MetaModel.new.

\* The first loop of new: every declared attribute gets its default, in
\* declaration order: [ok, dict, gen]; ok = FALSE when default_value raises.
RECURSIVE Defaults(_, _, _, _)
Defaults(names, types, d, g) ==
    IF names = <<>> \/ types = <<>> THEN [ok |-> TRUE, dict |-> d, gen |-> g]
    ELSE LET dv == default_value(Head(types), g)
         IN  IF ~dv.ok THEN [ok |-> FALSE, dict |-> d, gen |-> g]
             ELSE Defaults(Tail(names), Tail(types),
                           DictSet(d, Head(names), dv.val), dv.gen)

\* The second loop: positional arguments, coerced: [ok, dict].
RECURSIVE Positional(_, _, _, _)
Positional(names, types, args, d) ==
    IF names = <<>> \/ types = <<>> \/ args = <<>> THEN [ok |-> TRUE, dict |-> d]
    ELSE LET cv == Coerce(Head(types), Head(args))
         IN  IF ~cv.ok THEN [ok |-> FALSE, dict |-> d]
             ELSE Positional(Tail(names), Tail(types), Tail(args),
                             DictSet(d, Head(names), cv.val))

\* A constructor that applies the named arguments before the positional.
BuildPositionalLast(kind, args, kwargs) ==
    LET dflt == Defaults(param_names[kind], param_types[kind], <<>>, id_generator)
        pos == Positional(param_names[kind], param_types[kind], args,
                          DictUpdate(dflt.dict, kwargs))
    IN  IF ~dflt.ok THEN [st |-> "UnknownType", dict |-> <<>>, gen |-> dflt.gen]
        ELSE IF ~pos.ok THEN [st |-> "CoercionError", dict |-> <<>>, gen |-> dflt.gen]
        ELSE [st |-> "ok", dict |-> pos.dict, gen |-> dflt.gen]

\* The body of new for a defined kind: [st, dict, gen]; st is "ok",
\* "UnknownType" (ModelException of default_value) or "CoercionError".
Build(kind, args, kwargs) ==
    LET dflt == Defaults(param_names[kind], param_types[kind], <<>>, id_generator)
        pos == Positional(param_names[kind], param_types[kind], args, dflt.dict)
    IN  IF ~dflt.ok THEN [st |-> "UnknownType", dict |-> <<>>, gen |-> dflt.gen]
        ELSE IF ~pos.ok THEN [st |-> "CoercionError", dict |-> <<>>, gen |-> dflt.gen]
        ELSE [st |-> "ok", dict |-> DictUpdate(pos.dict, kwargs), gen |-> dflt.gen]

\* A constructor and a setter that leave the cache as it is.
KeepCache(co, C) == co

\* BaseObject.__init__: self.__c__.clear().
ClearCache(co, C) == [co EXCEPT ![C].c = EmptyMap]

----------------------------------------------------------------------------
\* The calls the model makes.

Kinds == {"A", "B"}

Key == <<"key", 1>>
Uid == <<"uid", 1>>
Lnk == <<"lnk", 1>>
Ref == <<"ref", 1>>
Tag == <<"tag", 1>>
Amt == <<"amt", 1>>
Flag == <<"flag", 1>>

\* The attribute lists a kind is defined with.
Schemas(kind) ==
    IF kind = "A"
    THEN {<< <<Key, "integer">>, <<Uid, "unique_id">> >>}
    ELSE {<< <<Ref, "integer">>, <<Tag, "string">>, <<Flag, "boolean">>,
             <<Amt, "real">> >>,
          << <<Uid, "unique_id">>, <<Lnk, "inst_ref">> >>}

PlainSchema(kind) ==
    IF kind = "A" THEN << <<Key, "integer">> >>
    ELSE << <<Ref, "integer">>, <<Tag, "string">> >>

\* Positional and keyword arguments of new: 1, "1" and "" for the first
\* declared attribute; Key = 0 and KEY = 0 by name.
ArgLists == {<<>>, <<PyInt(1)>>, <<PyStr(2)>>, <<PyStr(0)>>}

PlainArgLists == {<<>>, <<PyInt(1)>>}

KwargLists(kind) ==
    {<<>>} \cup (IF kind = "A"
                 THEN {<<[k |-> <<"key", v>>, val |-> PyInt(0)]>> : v \in {1, 2}}
                 ELSE {})

\* R1: A 1 -- MC B and R2: A 1 -- 1C B, both formalised by B.ref = A.key.
Associations ==
    {[rel_id |-> <<"str", 1>>,
      source |-> SingleAssociationLink("A", FALSE, <<<<"key", 0>>>>, ""),
      target |-> ManyAssociationLink("B", TRUE, <<<<"ref", 0>>>>, "")],
     [rel_id |-> <<"str", 2>>,
      source |-> SingleAssociationLink("A", FALSE, <<<<"key", 0>>>>, "x"),
      target |-> SingleAssociationLink("B", TRUE, <<<<"ref", 0>>>>, "y")]}

HopSet ==
    {[kind |-> "B", relid |-> <<"int", 1>>, phrase |-> ""],
     [kind |-> "A", relid |-> <<"str", 1>>, phrase |-> ""],
     [kind |-> "B", relid |-> <<"str", 2>>, phrase |-> "y"],
     [kind |-> "A", relid |-> <<"int", 2>>, phrase |-> "x"]}

HopLists == {<<h>> : h \in HopSet}

WhereClauses == {NoWhere, [name |-> <<"ref", 2>>, val |-> PyInt(1)]}

\* The predicates of select_*: none, and sel.key == 1 (which raises
\* AttributeError on an instance without key).
WhereConds == {NoWhere, [name |-> <<"key", 0>>, val |-> PyInt(1)]}

SetNames == {<<"key", 0>>, <<"ref", 2>>, <<"nope", 0>>}

SetValues == {PyInt(1)}

\* What a chain is started from: None, one instance, a QuerySet (here
\* inst1 + inst2), or something else; s is the QuerySet NavChain.__init__
\* binds for it.
Handles ==
    {[t |-> "none", s |-> <<>>], [t |-> "other", s |-> <<>>]}
    \cup {[t |-> "inst", s |-> <<i>>] : i \in DOMAIN objs}
    \cup {[t |-> "set", s |-> p] :
            p \in {<<i, j>> : i, j \in DOMAIN objs} \ {<<i, i>> : i \in DOMAIN objs}}

\* The chains the model starts: from None, from one instance and from
\* something else.  (A chain from a QuerySet does, instance by instance,
\* the lookups of the chains from its instances.)
StartHandles == {h \in Handles : Len(h.s) < 2}

\* The IdGenerator() of the parameter list of MetaModel.__init__: one
\* object, made when the function is defined.  It is id_generator, the
\* identity source of the registry above, which was constructed as
\* MetaModel(); the objects of generators are addressed from 1.
DefaultGenerator == 0

Init ==
    /\ classes = EmptyMap
    /\ param_names = EmptyMap
    /\ param_types = EmptyMap
    /\ instances = EmptyMap
    /\ id_generator = [current |-> 1]
    /\ ignore_undefined_classes = FALSE
    /\ cls = <<>>
    /\ objs = <<>>
    /\ ret = [op |-> "init"]
    /\ map = OrderedSet.map
    /\ heap = OrderedSet.heap
    /\ registries = <<DefaultGenerator>>
    /\ generators = <<>>

\* The state of the registry, left alone by the container.
registry == <<classes, param_names, param_types, instances, id_generator,
              ignore_undefined_classes, cls, objs>>

\* MetaModel.define_class(kind, attributes).
define_class(kind, attributes) ==
    /\ cls' = Append(cls, [name |-> kind, q |-> EmptyMap, c |-> EmptyMap])
    /\ classes' = MapPut(classes, kind, Len(cls) + 1)
    /\ param_names' = MapPut(param_names, kind,
                             [i \in DOMAIN attributes |-> attributes[i][1]])
    /\ param_types' = MapPut(param_types, kind,
                             [i \in DOMAIN attributes |-> attributes[i][2]])
    /\ ret' = [op |-> "define_class", kind |-> kind]
    /\ UNCHANGED <<instances, id_generator, ignore_undefined_classes, objs,
                   container, construction>>

\* The two writes at the end of define_association.
Formalize(co, rel_id, source, target) ==
    LET one == [co EXCEPT ![classes[source.kind]].q =
                    MapPut(@, <<target.kind, rel_id, target.phrase>>,
                           [source |-> source, target |-> target])]
    IN  [one EXCEPT ![classes[target.kind]].q =
            MapPut(@, <<source.kind, rel_id, source.phrase>>,
                   [source |-> target, target |-> source])]

\* MetaModel.define_association(rel_id, source, target).
define_association(rel_id, source, target) ==
    /\ IF {source.kind, target.kind} \subseteq DOMAIN classes
       THEN /\ cls' = Formalize(cls, rel_id, source, target)
            /\ ret' = [op |-> "define_association", st |-> "ok"]
       ELSE /\ cls' = cls
            /\ ret' = [op |-> "define_association", st |-> "KeyError"]
    /\ UNCHANGED <<classes, param_names, param_types, instances, id_generator,
                   ignore_undefined_classes, objs, container, construction>>

\* A new that raises whatever the flag.
AlwaysRaise(ignore) == "UnknownClass"

\* new on a kind that is not in classes: raise, or return None.
Undefined(ignore) == IF ignore THEN "none" ELSE "UnknownClass"

\* MetaModel.new(kind, *args, **kwargs).
new(kind, args, kwargs) ==
    IF kind \notin DOMAIN classes
    THEN /\ ret' = [op |-> "new", kind |-> kind, args |-> args, kwargs |-> kwargs,
                    st |-> Undefined(ignore_undefined_classes), inst |-> 0,
                    dropped |-> 0]
         /\ UNCHANGED <<classes, param_names, param_types, instances, id_generator,
                        ignore_undefined_classes, cls, objs, container, construction>>
    ELSE LET b == Build(kind, args, kwargs)
             id == Len(objs) + 1
         IN  /\ b.gen.current <= MaxIds
             /\ cls' = ClearCache(cls, classes[kind])
             /\ id_generator' = b.gen
             /\ IF b.st = "ok"
                THEN /\ objs' = Append(objs, [cls |-> classes[kind], dict |-> b.dict])
                     /\ instances' =
                            MapPut(instances, kind,
                                   Append(IF kind \in DOMAIN instances
                                          THEN instances[kind] ELSE <<>>, id))
                ELSE UNCHANGED <<objs, instances>>
             /\ ret' = [op |-> "new", kind |-> kind, args |-> args, kwargs |-> kwargs,
                        st |-> b.st, inst |-> IF b.st = "ok" THEN id ELSE 0,
                        dropped |-> Cardinality(DOMAIN cls[classes[kind]].c)]
             /\ UNCHANGED <<classes, param_names, param_types,
                            ignore_undefined_classes, container, construction>>

\* inst.name = value (BaseObject.__setattr__).
setattr(i, name, value) ==
    LET r == SetAttrDict(objs[i].dict, name, value)
    IN  /\ objs' = [objs EXCEPT ![i].dict = r.dict]
        /\ cls' = IF r.hit THEN ClearCache(cls, objs[i].cls) ELSE cls
        /\ ret' = IF r.hit
                  THEN [op |-> "setattr", inst |-> i, hit |-> TRUE,
                        name |-> name, value |-> value,
                        dropped |-> Cardinality(DOMAIN cls[objs[i].cls].c)]
                  ELSE [op |-> "setattr", inst |-> i, hit |-> FALSE]
        /\ UNCHANGED <<classes, param_names, param_types, instances, id_generator,
                       ignore_undefined_classes, container, construction>>

\* inst.name (BaseObject.__getattr__ after the normal lookup).
getattr(i, name) ==
    LET r == GetAttr(objs[i].dict, name)
    IN  /\ ret' = [op |-> "getattr", st |-> IF r.ok THEN "ok" ELSE "AttributeError"]
        /\ UNCHANGED <<classes, param_names, param_types, instances, id_generator,
                       ignore_undefined_classes, cls, objs, container, construction>>

\* NavChain(handle).kind[relid, phrase]...(where_clause): [st, val, cls].
Chain(handle, many, hops, where_clause, co) ==
    LET Shape(r, t) == [st |-> t.st, val |-> t.val, cls |-> r.cls]
        Terminal(r) ==
            IF r.st # "ok" THEN r ELSE Shape(r, Call(r.val, many, where_clause))
    IN  IF handle.t = "other"
        THEN [st |-> "InvalidNavigationSource", val |-> <<>>, cls |-> co]
        ELSE Terminal(Hops(handle.s, hops, co))

\* navigate_one(handle) / navigate_many(handle), the hops, and the call.
navigate(handle, many, hops, where_clause) ==
    LET r == Chain(handle, many, hops, where_clause, cls)
    IN  /\ cls' = r.cls
        /\ ret' = [op |-> "navigate"]
        /\ UNCHANGED <<classes, param_names, param_types, instances, id_generator,
                       ignore_undefined_classes, objs, container, construction>>

\* MetaModel.default_value(ty_name), called directly.
call_default_value(ty_name) ==
    LET dv == default_value(ty_name, id_generator)
    IN  /\ dv.gen.current <= MaxIds
        /\ id_generator' = dv.gen
        /\ ret' = [op |-> "default_value", ty_name |-> ty_name,
                   st |-> IF dv.ok THEN "ok" ELSE "UnknownType", val |-> dv.val]
        /\ UNCHANGED <<classes, param_names, param_types, instances,
                       ignore_undefined_classes, cls, objs, container, construction>>

\* A select_any without the filter.
SelectUnfiltered(kind, where_cond) ==
    IF kind \in DOMAIN instances THEN FilterFirst(instances[kind], NoWhere)
    ELSE [st |-> "ok", val |-> <<>>]

\* What select_any returns: [st, val]; val is <<>> for None.
SelectAny(kind, where_cond) ==
    IF kind \in DOMAIN instances THEN FilterFirst(instances[kind], where_cond)
    ELSE [st |-> "ok", val |-> <<>>]

\* What select_many returns: [st, val].
SelectMany(kind, where_cond) ==
    IF kind \in DOMAIN instances THEN FilterAll(instances[kind], where_cond)
    ELSE [st |-> "ok", val |-> QuerySet(<<>>)]

\* MetaModel.select_any(kind, where_cond).
select_any(kind, where_cond) ==
    LET r == SelectAny(kind, where_cond)
    IN  /\ ret' = [op |-> "select_any", kind |-> kind, where_cond |-> where_cond,
                   st |-> r.st, val |-> r.val]
        /\ UNCHANGED <<registry, container, construction>>

\* MetaModel.select_one(kind, where_cond).
select_one(kind, where_cond) == select_any(kind, where_cond)

\* MetaModel.select_many(kind, where_cond).
select_many(kind, where_cond) ==
    LET r == SelectMany(kind, where_cond)
    IN  /\ ret' = [op |-> "select_many", kind |-> kind, where_cond |-> where_cond,
                   st |-> r.st, val |-> r.val]
        /\ UNCHANGED <<registry, container, construction>>

\* metamodel.id_generator.peek().
call_peek ==
    /\ ret' = [op |-> "peek", val |-> peek(id_generator)]
    /\ UNCHANGED <<registry, container, construction>>

\* metamodel.ignore_undefined_classes = flag.
set_ignore_undefined_classes(flag) ==
    /\ ignore_undefined_classes' = flag
    /\ ret' = [op |-> "configure"]
    /\ UNCHANGED <<classes, param_names, param_types, instances, id_generator,
                   cls, objs, container, construction>>

\* The id_generator MetaModel() binds: the default of the parameter.
DefaultArgument(gens) == [ref |-> DefaultGenerator, gens |-> gens]

\* MetaModel(IdGenerator(readfunc)), readfunc a counter from 1: a new object.
GivenArgument(gens) == [ref |-> Len(gens) + 1, gens |-> Append(gens, [current |-> 1])]

\* The IdGenerator object at an address.
Generator(ref) == IF ref = DefaultGenerator THEN id_generator ELSE generators[ref]

\* MetaModel.__init__(id_generator): the override is given or not.
MetaModel(given) ==
    LET Bind(a) == /\ registries' = Append(registries, a.ref)
                   /\ generators' = a.gens
    IN  /\ Bind(IF given THEN GivenArgument(generators) ELSE DefaultArgument(generators))
        /\ ret' = [op |-> "MetaModel", given |-> given]
        /\ UNCHANGED <<registry, container>>

\* default_value(ty_name) of registry r.
registry_default_value(r, ty_name) ==
    LET Store(ref, dv) ==
            /\ dv.gen.current <= MaxIds
            /\ IF ref = DefaultGenerator
               THEN id_generator' = dv.gen /\ UNCHANGED generators
               ELSE generators' = [generators EXCEPT ![ref] = dv.gen]
                    /\ UNCHANGED id_generator
            /\ ret' = [op |-> "registry.default_value", registry |-> r,
                       ty_name |-> ty_name,
                       st |-> IF dv.ok THEN "ok" ELSE "UnknownType", val |-> dv.val]
    IN  /\ Store(registries[r], default_value(ty_name, Generator(registries[r])))
        /\ UNCHANGED <<classes, param_names, param_types, instances,
                       ignore_undefined_classes, cls, objs, container, registries>>

\* registry r's id_generator.peek().
registry_peek(r) ==
    /\ ret' = [op |-> "registry.peek", registry |-> r,
               val |-> peek(Generator(registries[r]))]
    /\ UNCHANGED <<registry, container, construction>>

\* OrderedSet.add(key).
add(key) ==
    LET a == AddKey([map |-> map, heap |-> heap], key)
    IN  /\ map' = a.map
        /\ heap' = a.heap
        /\ ret' = [op |-> "add", key |-> key, st |-> "ok"]
        /\ UNCHANGED <<registry, construction>>

\* OrderedSet.discard(key).
discard(key) ==
    LET d == Discard(map, heap, key)
    IN  /\ map' = d.map
        /\ heap' = d.heap
        /\ ret' = [op |-> "discard", key |-> key, st |-> d.st]
        /\ UNCHANGED <<registry, construction>>

\* OrderedSet.pop(last).
pop(last) ==
    LET d == Discard(map, heap, PopKey(heap, last))
    IN  /\ IF len(map) = 0
           THEN /\ ret' = [op |-> "pop", last |-> last, st |-> "KeyError", val |-> None]
                /\ UNCHANGED container
           ELSE /\ map' = d.map
                /\ heap' = d.heap
                /\ ret' = [op |-> "pop", last |-> last, st |-> d.st,
                           val |-> IF d.st = "ok" THEN PopKey(heap, last) ELSE None]
        /\ UNCHANGED <<registry, construction>>

\* The registry as a relational store: classes, associations, instances,
\* attribute writes and navigation.  A is defined before B, B may be
\* defined again, and each association is defined once.
Next ==
    \/ \E kind \in Kinds :
            /\ Len(cls) + Len(objs) < MaxObjs
            /\ Len(cls) < MaxCls
            /\ kind = "B" => "A" \in DOMAIN classes
            /\ kind \in DOMAIN classes => kind = "B"
            /\ define_class(kind, PlainSchema(kind))
    \/ \E a \in Associations :
            /\ \A c \in DOMAIN cls : \A key \in DOMAIN cls[c].q : key[2] # a.rel_id
            /\ define_association(a.rel_id, a.source, a.target)
    \/ \E kind \in Kinds : \E args \in PlainArgLists :
            /\ Len(cls) + Len(objs) < MaxObjs
            /\ new(kind, args, <<>>)
    \/ \E i \in DOMAIN objs : \E name \in SetNames : \E value \in SetValues :
            setattr(i, name, value)
    \/ \E handle \in StartHandles : \E many \in BOOLEAN : \E hops \in HopLists :
            navigate(handle, many, hops, NoWhere)

Spec == Init /\ [][Next]_vars

\* The registry as a factory: construction with every form of argument,
\* the policy flag, defaults, and attribute reads and writes.
NextNew ==
    \/ \E kind \in Kinds \ DOMAIN classes : \E attributes \in Schemas(kind) :
            define_class(kind, attributes)
    \/ \E kind \in Kinds : \E args \in ArgLists : \E kwargs \in KwargLists(kind) :
            Len(objs) < MaxNew /\ new(kind, args, kwargs)
    \/ \E i \in DOMAIN objs : \E name \in SetNames : \E value \in SetValues :
            setattr(i, name, value)
    \/ \E i \in DOMAIN objs : \E name \in SetNames : getattr(i, name)
    \/ \E ty_name \in {"unique_id", "integer", "inst_ref"} : call_default_value(ty_name)
    \/ \E flag \in BOOLEAN : set_ignore_undefined_classes(flag)
    \/ call_peek
    \/ \E kind \in Kinds : \E where_cond \in WhereConds : select_one(kind, where_cond)
    \/ \E kind \in Kinds : \E where_cond \in WhereConds : select_any(kind, where_cond)
    \/ \E kind \in Kinds : \E where_cond \in WhereConds : select_many(kind, where_cond)

SpecNew == Init /\ [][NextNew]_vars

\* One OrderedSet under add, discard and pop.
NextSet ==
    \/ \E key \in 1 .. MaxKey :
            /\ contains(map, key) \/ Cardinality(DOMAIN heap) <= MaxNodes
            /\ add(key)
    \/ \E key \in 1 .. MaxKey : discard(key)
    \/ \E last \in BOOLEAN : pop(last)

SpecSet == Init /\ [][NextSet]_vars

\* Several registries: construction with and without an identity source
\* of the caller's, and the identity values drawn in each.
NextRegistries ==
    \/ \E given \in BOOLEAN : Len(registries) < MaxRegs /\ MetaModel(given)
    \/ \E r \in DOMAIN registries : \E ty_name \in {"unique_id", "integer"} :
            registry_default_value(r, ty_name)
    \/ \E r \in DOMAIN registries : registry_peek(r)

SpecRegistries == Init /\ [][NextRegistries]_vars

----------------------------------------------------------------------------
\* Vocabulary of the properties.

Range(s) == {s[i] : i \in DOMAIN s}

InstancesOf(kind) == IF kind \in DOMAIN instances THEN instances[kind] ELSE <<>>

\* The hops over R1 and R2, as a chain names them.
R1toB == [kind |-> "B", relid |-> <<"int", 1>>, phrase |-> ""]
R1toA == [kind |-> "A", relid |-> <<"int", 1>>, phrase |-> ""]
R2toB == [kind |-> "B", relid |-> <<"int", 2>>, phrase |-> "y"]

\* The class of instance i knows the hop.
HasHop(i, hop) ==
    <<hop.kind, RelId(hop.relid), hop.phrase>> \in DOMAIN cls[objs[i].cls].q

LinkOf(i, hop) == cls[objs[i].cls].q[<<hop.kind, RelId(hop.relid), hop.phrase>>]

\* The join attributes of b equal the join values of i, read now.
JoinMatch(i, link, b) ==
    \A n \in DOMAIN link.source.ids :
        LET x == GetAttr(objs[i].dict, link.source.ids[n])
            y == GetAttr(objs[b].dict, link.target.ids[n])
        IN  x.ok /\ y.ok /\ PyEq(x.val, y.val)

\* The instances of the peer class that match i across the hop, in
\* creation order, read from the instance table now.
Peers(i, hop) ==
    LET Test(b) == JoinMatch(i, LinkOf(i, hop), b)
    IN  SelectSeq(InstancesOf(hop.kind), Test)

\* What navigating one hop from instance i returns now.
Look(i, hop) == nav(<<i>>, hop, <<>>, cls)

\* The peer class's cache holds a result under the join key of i.
Stored(i, hop) ==
    LET link == LinkOf(i, hop)
        values == SourceValues(objs[i].dict, link.source.ids)
    IN  /\ hop.kind \in DOMAIN classes
        /\ CacheKey(ZipDict(link.target.ids, values.val))
                \in DOMAIN cls[classes[hop.kind]].c

\* R1 is the only association any class knows.
OnlyR1 == \A c \in DOMAIN cls : \A key \in DOMAIN cls[c].q : key[2] = <<"str", 1>>

----------------------------------------------------------------------------
\* C1 - cache correctness.  With R1 the only association, a result is in
\* B's cache under the join key of an A instance only because a navigation
\* A -> B via R1 from an instance with that key stored it; whatever
\* assignments to B instances and constructions of B instances followed,
\* the next navigation A -> B via R1 from that instance returns exactly the
\* B instances whose join attributes match its join values now.
CacheCorrectness ==
    OnlyR1 =>
        \A a \in DOMAIN objs :
            (HasHop(a, R1toB) /\ Stored(a, R1toB))
                => Look(a, R1toB).val = Peers(a, R1toB)

\* C2 - whole-class invalidation.  In the state reached by an attribute
\* assignment that matched a stored attribute, and in the state reached by
\* new returning an instance, the association result cache of the
\* instance's class holds no entry.
WholeClassInvalidation ==
    ((ret.op = "setattr" /\ ret.hit) \/ (ret.op = "new" /\ ret.st = "ok"))
        => cls[objs[ret.inst].cls].c = EmptyMap

\* An assignment has just emptied a cache that held entries.
InvalidatedEntries == ret.op = "setattr" /\ ret.hit /\ ret.dropped > 0

KeyOf(a) == GetAttr(objs[a].dict, <<"key", 0>>).val

\* No two A instances have the same join value.
UniqueJoinValues ==
    \A x, y \in Range(InstancesOf("A")) : x # y => ~PyEq(KeyOf(x), KeyOf(y))

\* C3 - bidirectional consistency.  Once R1 is defined between A and B,
\* b is in the result of navigating a -> B via R1 exactly when a is in the
\* result of navigating b -> A via R1; stated for populations in which no
\* two A instances have the same join value, so that the single-valued end
\* of R1 identifies one instance.
BidirectionalConsistency ==
    UniqueJoinValues =>
        \A a, b \in DOMAIN objs :
            (HasHop(a, R1toB) /\ HasHop(b, R1toA))
                => (b \in Range(Look(a, R1toB).val)
                        <=> a \in Range(Look(b, R1toA).val))

\* The position in S of the first source that b matches.
FirstSource(S, b) ==
    CHOOSE k \in DOMAIN S :
        /\ b \in Range(Peers(S[k], R1toB))
        /\ \A m \in 1..(k - 1) : b \notin Range(Peers(S[m], R1toB))

IsFanOut(S, res) ==
    /\ Range(res) = UNION {Range(Peers(S[k], R1toB)) : k \in DOMAIN S}
    /\ \A i, j \in DOMAIN res : i # j => res[i] # res[j]
    /\ \A i, j \in DOMAIN res :
            i < j => \/ FirstSource(S, res[i]) < FirstSource(S, res[j])
                     \/ /\ FirstSource(S, res[i]) = FirstSource(S, res[j])
                        /\ res[i] < res[j]

\* C4 - fan-out of a hop.  navigate_many from a bound set S, one hop over
\* the many end of R1 and a call without predicate return the B instances
\* that match the join values of at least one instance of S, each once,
\* ordered by the position in S of the first source they match and then by
\* creation.
FanOut ==
    \A h \in Handles :
        (h.t \in {"inst", "set"} /\ \A k \in DOMAIN h.s : HasHop(h.s[k], R1toB))
            => LET r == Chain(h, TRUE, <<R1toB>>, NoWhere, cls)
               IN  r.st = "ok" => IsFanOut(h.s, r.val)

\* Instance i satisfies the predicate of the terminal call.
Satisfies(i, where_clause) ==
    \/ where_clause = NoWhere
    \/ /\ where_clause # NoWhere
       /\ GetAttr(objs[i].dict, where_clause.name).ok
       /\ PyEq(GetAttr(objs[i].dict, where_clause.name).val, where_clause.val)

Filtered(bound, where_clause) ==
    LET Test(i) == Satisfies(i, where_clause)
    IN  SelectSeq(bound, Test)

\* C5 - cardinality shaping.  navigate_one returns one instance or none:
\* over R2, whose B end is 1C, none when no B instance matches the join
\* values of the source and the one B instance when exactly one matches;
\* for every chain, the first instance of the bound set that satisfies
\* the predicate, or none.  navigate_many returns every instance of the
\* bound set that satisfies the predicate, in bound order.
CardinalityShaping ==
    /\ \A a \in DOMAIN objs :
            HasHop(a, R2toB) =>
                LET one == Chain([t |-> "inst", s |-> <<a>>], FALSE, <<R2toB>>,
                                 NoWhere, cls)
                    P == Peers(a, R2toB)
                IN  one.st = "ok" =>
                        /\ Len(one.val) <= 1
                        /\ P = <<>> => one.val = <<>>
                        /\ Len(P) = 1 => one.val = P
    /\ \A h \in Handles : \A hops \in HopLists \cup {<<>>} : \A w \in WhereClauses :
            LET bound == Hops(h.s, hops, cls)
                one == Chain(h, FALSE, hops, w, cls)
                many == Chain(h, TRUE, hops, w, cls)
            IN  (h.t # "other" /\ one.st = "ok" /\ many.st = "ok") =>
                    /\ many.val = Filtered(bound.val, w)
                    /\ one.val = IF many.val = <<>> THEN <<>> ELSE <<Head(many.val)>>

CaseVariants(name) == {<<name[1], v>> : v \in 0..2}

\* C6 - case-insensitive attribute slots.  After an assignment under one
\* letter-case variant of a stored attribute's name, a read under every
\* letter-case variant of the name returns the assigned value.
CaseInsensitiveSlots ==
    (ret.op = "setattr" /\ ret.hit) =>
        \A n \in CaseVariants(ret.name) :
            GetAttr(objs[ret.inst].dict, n) = [ok |-> TRUE, val |-> ret.value]

\* C7 - a write to an unknown attribute is a silent no-op.  An assignment
\* whose name matches no stored attribute returns without error and leaves
\* the instances (their attributes and values), every association result
\* cache and the instance tables as they were.
UnknownWriteChangesNothing ==
    [][(ret'.op = "setattr" /\ ~ret'.hit) => UNCHANGED <<objs, cls, instances>>]_vars

\* An unmatched assignment on an instance whose class has cached results.
UnknownWriteOverCache ==
    ret.op = "setattr" /\ ~ret.hit /\ cls[objs[ret.inst].cls].c # EmptyMap

\* The default of a declared type; the identity values of one new are
\* consecutive, in declaration order, and end just before the next one.
TypeDefault(types, j) ==
    CASE types[j] = "boolean" -> PyBool(FALSE)
      [] types[j] = "integer" -> PyInt(0)
      [] types[j] = "real" -> PyFloat(0)
      [] types[j] = "string" -> PyStr(0)
      [] types[j] = "unique_id" ->
            PyUuid(peek(id_generator)
                   - Cardinality({m \in DOMAIN types : m >= j /\ types[m] = "unique_id"}))

Named(kwargs, name) == {e \in DOMAIN kwargs : kwargs[e].k = name}

NamedValue(kwargs, name) == kwargs[CHOOSE e \in Named(kwargs, name) : TRUE].val

\* The class of the last new declares only types that have a default.
Constructible == \A j \in DOMAIN param_types[ret.kind] :
                        param_types[ret.kind][j] \in KnownDefaults

\* C8 - defaults and completeness at construction, with the positional
\* value first: every declared attribute of the instance new returns has
\* the positional value at its index if supplied, else the named value if
\* supplied, else the type default.
PositionalThenNamed ==
    (ret.op = "new" /\ ret.st = "ok") =>
        LET names == param_names[ret.kind]
            types == param_types[ret.kind]
            d == objs[ret.inst].dict
        IN  \A j \in DOMAIN names :
                /\ names[j] \in DictKeys(d)
                /\ DictGet(d, names[j]) =
                     IF j <= Len(ret.args) THEN Coerce(types[j], ret.args[j]).val
                     ELSE IF Named(ret.kwargs, names[j]) # {}
                     THEN NamedValue(ret.kwargs, names[j])
                     ELSE TypeDefault(types, j)

\* C8 - defaults and completeness at construction, with the named value
\* first: every declared attribute of the instance new returns has the
\* value named under its declared spelling if supplied, else the positional
\* value at its index, converted to the declared type, if supplied, else
\* the type default; and new returns no instance of a class that declares a
\* type without default (inst_ref), it raises.
NamedThenPositional ==
    (ret.op = "new" /\ ret.kind \in DOMAIN classes) =>
        IF ~Constructible THEN ret.st = "UnknownType"
        ELSE ret.st = "ok" =>
            LET names == param_names[ret.kind]
                types == param_types[ret.kind]
                d == objs[ret.inst].dict
            IN  \A j \in DOMAIN names :
                    /\ names[j] \in DictKeys(d)
                    /\ DictGet(d, names[j]) =
                         IF Named(ret.kwargs, names[j]) # {}
                         THEN NamedValue(ret.kwargs, names[j])
                         ELSE IF j <= Len(ret.args)
                         THEN Coerce(types[j], ret.args[j]).val
                         ELSE TypeDefault(types, j)

\* new has returned an instance built from a positional and a named value
\* for the same attribute.
BothSupplied ==
    /\ ret.op = "new" /\ ret.st = "ok"
    /\ ret.args # <<>>
    /\ Named(ret.kwargs, param_names[ret.kind][1]) # {}

\* The call r records has failed.
Failed(r) ==
    \/ r.op = "new" /\ r.st \in {"UnknownClass", "UnknownType"}
    \/ r.op = "default_value" /\ r.st = "UnknownType"
    \/ r.op = "getattr" /\ r.st = "AttributeError"

\* C9 - errors leave the state as it was.  A step that ends in
\* UnknownClass (new), UnknownType (default_value, also inside new) or
\* AttributeError (attribute read) leaves the instance tables, every
\* association result cache and the identity source unchanged.
ErrorsLeaveState ==
    [][Failed(ret') => UNCHANGED <<instances, objs, cls, id_generator>>]_vars

\* C10 - new on an undefined class.  new for a kind that define_class never
\* registered raises when ignore_undefined_classes is false and returns
\* None when it is true; either way no instance is created or appended and
\* the instance tables get no entry for the kind.
NewOnUndefinedClass ==
    [][(ret'.op = "new" /\ ret'.kind \notin DOMAIN classes) =>
            /\ ret'.st = IF ignore_undefined_classes THEN "none" ELSE "UnknownClass"
            /\ ret'.inst = 0
            /\ UNCHANGED <<instances, objs>>
            /\ ret'.kind \notin DOMAIN instances']_vars

\* new has returned None for an undefined kind while instances exist.
IgnoredUndefinedClass ==
    /\ ret.op = "new" /\ ret.st = "none"
    /\ ret.kind \notin DOMAIN classes
    /\ objs # <<>>

----------------------------------------------------------------------------
\* Vocabulary of the container properties.

\* The sequence without the element key.
Without(seq, key) ==
    LET Keep(e) == e # key
    IN  SelectSeq(seq, Keep)

\* C11 - discard.  A discard of a present element returns without an
\* error, takes the element out of the membership map, makes the container
\* one shorter and leaves forward iteration as it was but for that element;
\* a discard of an absent element changes neither the map nor the links.
DiscardRemovesExactly ==
    [][ret'.op = "discard" =>
            IF contains(map, ret'.key)
            THEN /\ ret'.st = "ok"
                 /\ ~contains(map', ret'.key)
                 /\ len(map') = len(map) - 1
                 /\ iter(heap') = Without(iter(heap), ret'.key)
            ELSE UNCHANGED container]_vars

\* The element at one end of a sequence; None for the empty sequence.
EndOf(seq, last) ==
    IF seq = <<>> THEN None ELSE IF last THEN seq[Len(seq)] ELSE Head(seq)

\* C12 - pop.  On a container that holds an element, pop(last) returns the
\* last element of forward iteration and pop(not last) the first, takes it
\* out and makes the container one shorter; on a container that holds
\* none, pop raises KeyError and changes nothing.
PopRemovesEnd ==
    [][ret'.op = "pop" =>
            IF len(map) = 0
            THEN ret'.st = "KeyError" /\ UNCHANGED container
            ELSE /\ ret'.st = "ok"
                 /\ ret'.val = EndOf(iter(heap), ret'.last)
                 /\ ~contains(map', ret'.val)
                 /\ len(map') = len(map) - 1
                 /\ iter(heap') = Without(iter(heap), ret'.val)]_vars

\* Nothing was ever taken out of the container: every node made is the
\* node of a member.
OnlyAdded == Cardinality(DOMAIN heap) = len(map) + 1

\* The elements of seq that are not in the set m, each once, in the order
\* in which seq first has them.
RECURSIVE NewIn(_, _)
NewIn(seq, m) ==
    IF seq = <<>> THEN <<>>
    ELSE IF Head(seq) \in m THEN NewIn(Tail(seq), m)
    ELSE <<Head(seq)>> \o NewIn(Tail(seq), m \cup {Head(seq)})

\* The iterables a union is taken with.
Iterables ==
    {<<>>} \cup {<<x>> : x \in 1 .. MaxKey} \cup {<<x, y>> : x, y \in 1 .. MaxKey}

\* C13 - add keeps set semantics.  On a container that was only ever added
\* to: an add of an absent element puts it after all others in forward
\* iteration and makes the container one longer; an add of a present
\* element changes neither the map nor any link; forward iteration has
\* each member once; and the union with OrderedSet(b) iterates over the
\* container's elements in its order, then over the elements of b that it
\* does not hold, in b's order.
AddKeepsSetSemantics ==
    /\ [][(OnlyAdded /\ ret'.op = "add") =>
                IF contains(map, ret'.key)
                THEN UNCHANGED container
                ELSE /\ iter(heap') = Append(iter(heap), ret'.key)
                     /\ len(map') = len(map) + 1]_vars
    /\ [](OnlyAdded =>
            /\ Len(iter(heap)) = len(map)
            /\ Range(iter(heap)) = DOMAIN map
            /\ \A b \in Iterables :
                    iter(Or([map |-> map, heap |-> heap], FromIterable(b)).heap)
                        = iter(heap) \o NewIn(b, DOMAIN map))

\* An add of a present element to a container of two elements that was
\* only ever added to.
AddedTwice ==
    /\ OnlyAdded
    /\ ret.op = "add"
    /\ len(map) = 2
    /\ iter(heap)[1] = ret.key

----------------------------------------------------------------------------
\* The identity values the instances hold.
Identifiers(os) ==
    UNION {{os[i].dict[n].val.v :
                n \in {k \in DOMAIN os[i].dict : os[i].dict[k].val.ty = "unique_id"}} :
           i \in DOMAIN os}

\* Instances i and j hold the same identity value.
SameIdentifier(i, j) ==
    \E m \in DOMAIN objs[i].dict : \E n \in DOMAIN objs[j].dict :
        /\ objs[i].dict[m].val.ty = "unique_id"
        /\ objs[i].dict[m].val = objs[j].dict[n].val

\* The call was default_value('unique_id'), which returns next().
IsNext(r) == r.op = "default_value" /\ r.ty_name = "unique_id"

\* A step of peek(): the current value is returned, nothing changes.
PeekStep ==
    ret'.op = "peek" =>
        (ret'.val = peek(id_generator) /\ UNCHANGED <<registry, container, construction>>)

\* A step of next(): the value peek() returned before is returned, it is
\* held by no instance and differs from what the next() before returned,
\* and the source is left at another value.
NextStep ==
    IsNext(ret') =>
        /\ ret'.val = PyUuid(peek(id_generator))
        /\ peek(id_generator') # peek(id_generator)
        /\ ret'.val.v \notin Identifiers(objs)
        /\ IsNext(ret) => ret'.val # ret.val

\* C14 - identity source.  peek() returns the current value and changes
\* nothing; next(), as default_value('unique_id') calls it, returns the
\* value peek() returned before it, leaves the source at another value, and
\* returns a value that no instance holds; no two instances hold the same
\* identity value, and none holds the value next() will return.
IdentitySource ==
    /\ [][PeekStep /\ NextStep]_vars
    /\ [](/\ \A i, j \in DOMAIN objs : SameIdentifier(i, j) => i = j
          /\ peek(id_generator) \notin Identifiers(objs))

\* Two instances took the unique_id default, and a peek followed.
TwoIdentified ==
    /\ ret.op = "peek"
    /\ Cardinality(Identifiers(objs)) = 2

----------------------------------------------------------------------------
\* C15 - a class descriptor is created once.  No step changes, for a name
\* that is registered, the attribute names and types registered for it or
\* the class object (the holder of the association index and of the
\* association result cache) registered for it; and define_class is never
\* carried out for a name that is registered.
ClassDescriptorImmutable ==
    [][\A kind \in DOMAIN classes :
            /\ classes'[kind] = classes[kind]
            /\ param_names'[kind] = param_names[kind]
            /\ param_types'[kind] = param_types[kind]
            /\ ~(ret'.op = "define_class" /\ ret'.kind = kind)]_vars

----------------------------------------------------------------------------
\* The predicate can be evaluated on every instance of the kind.
Evaluates(kind, where_cond) ==
    \A i \in Range(InstancesOf(kind)) :
        where_cond # NoWhere => GetAttr(objs[i].dict, where_cond.name).ok

\* The instances of the kind that satisfy the predicate, in creation order.
Satisfying(kind, where_cond) == Filtered(InstancesOf(kind), where_cond)

\* C16 - predicate selection.  A select_one, select_any or select_many
\* changes neither the registry, the instances nor any cache.  With a
\* predicate that can be evaluated on every instance of the kind the call
\* returns; and when it returns, select_one / select_any returns the
\* earliest-created instance of the kind that satisfies the predicate, and
\* none when there is no such instance (the kind is unknown, has no
\* instance, or none satisfies), and select_many returns the satisfying
\* instances of the kind in creation order, none for an unknown kind.
PredicateSelection ==
    /\ [][ret'.op \in {"select_any", "select_many"}
                => UNCHANGED <<registry, container, construction>>]_vars
    /\ [](ret.op \in {"select_any", "select_many"} =>
            LET sat == Satisfying(ret.kind, ret.where_cond)
            IN  /\ Evaluates(ret.kind, ret.where_cond) => ret.st = "ok"
                /\ (ret.st = "ok" /\ ret.op = "select_any") =>
                        ret.val = IF sat = <<>> THEN <<>> ELSE <<sat[1]>>
                /\ (ret.st = "ok" /\ ret.op = "select_many") => ret.val = sat)

\* select_any returned the second of two instances of a kind, the first
\* not satisfying the predicate.
SelectedSecond ==
    /\ ret.op = "select_any"
    /\ ret.st = "ok"
    /\ Len(InstancesOf(ret.kind)) = 2
    /\ ret.val = <<InstancesOf(ret.kind)[2]>>

----------------------------------------------------------------------------
\* What an uncached scan of the peer class's instance table returns for
\* instance i across the hop, with the link's own join attributes and
\* cardinality: every match when the link's end is many, else the first.
Scanned(i, hop) ==
    IF is_many(LinkOf(i, hop).target) \/ Peers(i, hop) = <<>> THEN Peers(i, hop)
    ELSE <<Peers(i, hop)[1]>>

\* C17 - single-valued links.  In every state, the lookup from an instance
\* across a link whose far end is 1 or 1C returns at most one instance:
\* the earliest-created instance of the peer class that matches the join
\* values, or none when none matches.
SingleValuedLinks ==
    \A i \in DOMAIN objs : \A hop \in HopSet :
        (HasHop(i, hop) /\ ~is_many(LinkOf(i, hop).target)) =>
            (Look(i, hop).st = "ok" =>
                /\ Len(Look(i, hop).val) <= 1
                /\ Look(i, hop).val = Scanned(i, hop))

\* C18 - cache transparency.  In every state, the lookup from an instance
\* across a link returns what an uncached scan of the peer class's
\* instance table returns now for that link's own join attributes and
\* cardinality, whatever other links lead to the same class.
CacheTransparency ==
    \A i \in DOMAIN objs : \A hop \in HopSet :
        (HasHop(i, hop) /\ Look(i, hop).st = "ok") => Look(i, hop).val = Scanned(i, hop)

----------------------------------------------------------------------------
\* The sequence in reverse.
Reverse(seq) == [n \in DOMAIN seq |-> seq[Len(seq) + 1 - n]]

\* C19 - structural consistency of the container.  In every state reached
\* by add, discard and pop, whether or not a call raised: reverse
\* iteration is forward iteration reversed, both hold exactly the keys of
\* the membership map, the length is the number of elements iterated, and
\* first and last return the first element of forward and of reverse
\* iteration (None on the empty container).
StructuralConsistency ==
    /\ reversed(heap) = Reverse(iter(heap))
    /\ Range(iter(heap)) = DOMAIN map
    /\ Len(iter(heap)) = len(map)
    /\ QuerySetFirst(map, heap) = [st |-> "ok", val |-> EndOf(iter(heap), FALSE)]
    /\ QuerySetLast(map, heap) = [st |-> "ok", val |-> EndOf(reversed(heap), FALSE)]

----------------------------------------------------------------------------
\* What peek() of the identity source of registry r returns, the sources
\* being as given.
PeekOf(r, default, gens) ==
    peek(IF registries[r] = DefaultGenerator THEN default ELSE gens[registries[r]])

\* C20 - one identity source per registry.  A default_value call in one
\* registry leaves what peek() returns in every other registry as it was,
\* the registries constructed without an identity source of the caller's
\* included.
OneSourcePerRegistry ==
    [][\A r, o \in DOMAIN registries :
            (ret'.op = "registry.default_value" /\ ret'.registry = r /\ o # r)
                => PeekOf(o, id_generator', generators')
                        = PeekOf(o, id_generator, generators)]_vars

====
